---- MODULE Spec2Model ----
(***************************************************************************)
(* Model of the realtime quote streamer, src/src/realtime/mod.rs.          *)
(*                                                                         *)
(* Streamer::new connects (panicking on failure), Streamer::subscribe      *)
(* inserts symbols into the RwLock-protected HashMap, Streamer::run takes  *)
(* a snapshot of the keys, sends one subscription frame and then loops     *)
(* receiving, decoding and dispatching frames.                             *)
(*                                                                         *)
(* Both subscribe and run take `&mut self`: while the future of one of     *)
(* them is alive no other method of the same Streamer can be called, so    *)
(* a call starts only when no other call is in progress.  run may be       *)
(* called again after it has returned.  A panic unwinds the caller and     *)
(* ends the model's behaviour.                                             *)
(***************************************************************************)
EXTENDS Integers, Sequences, FiniteSets, TLC

\* ---------------------------------------------------------------- bounds
MaxSubscribes == 2      \* subscribe calls in one behaviour
MaxBatch == 2           \* symbols in one subscribe call
MaxFrames == 3          \* inbound frames decoded in one run
MaxRuns == 1            \* run calls in one behaviour

Symbols == {"A", "B"}            \* symbols the caller subscribes to
Ids == Symbols \cup {"C"}         \* ids the remote end sends updates for
Callbacks == {"f", "g"}
Prices == {1}
Volumes == {5}

VARIABLES
  stream,         \* Streamer.stream: "unconnected" before new() returns, then "connected"
  subscriptions,  \* Streamer.subscriptions: the HashMap, a function symbol -> callback
  lock,           \* state of the RwLock around the map: "unlocked", "read", "write"
  pc,             \* position of new()/run()
  v,              \* run's local Vec of symbols
  item,           \* what self.stream.next().await last yielded
  msg,            \* run's local: the frame just received
  x,              \* run's local: the decoded PricingData
  result,         \* value returned by the last run(): "none", "Ok", "Err"
  spc,            \* position of subscribe()
  symbols,        \* subscribe's argument 
  si,             \* subscribe's loop position in symbols
  callback,       \* subscribe's argument 
  sent,           \* text frames written to the stream, in order, each with the run that sent it
  arrived,        \* updates decoded by the latest run, in order (until the next call)
  invoked,        \* callback invocations of the latest run, in order (until the next call)
  insertOrder,    \* keys of the map in the order they were inserted
  duplicate,      \* some subscribe named a symbol the map already held
  nruns,          \* number of run calls so far
  nsubs           \* number of subscribe calls so far

vars == <<stream, subscriptions, lock, pc, v, item, msg, x, result, spc, symbols, si,
          callback, sent, arrived, invoked, insertOrder, duplicate, nruns, nsubs>>

runLocals == <<v, item, msg, x>>
subLocals == <<spc, symbols, si, callback>>
history == <<sent, arrived, invoked, insertOrder, duplicate>>

\* ---------------------------------------------------------------- values
Range(s) == {s[i] : i \in 1..Len(s)}

EmptyMap == [s \in {} |-> "f"]

\* PricingData as far as run reads it: id, price, dayVolume
PricingData == [id : Ids, price : Prices, dayVolume : Volumes]
NoData == [id |-> "", price |-> 0, dayVolume |-> 0]

\* An inbound frame: a text body that is base64 or is not, whose bytes parse
\* as a PricingData record or do not.
Message == [body : {"base64"}, wire : {TRUE}, pd : PricingData]
             \cup {[body |-> "garbage", wire |-> FALSE, pd |-> NoData],
                   [body |-> "base64", wire |-> FALSE, pd |-> NoData]}
NoMsg == [body |-> "", wire |-> FALSE, pd |-> NoData]

\* Option<Result<Message>> yielded by self.stream.next().await
Pending == [tag |-> "pending", res |-> "", m |-> NoMsg]
None == [tag |-> "None", res |-> "", m |-> NoMsg]
SomeErr == [tag |-> "Some", res |-> "Err", m |-> NoMsg]
SomeOk(m) == [tag |-> "Some", res |-> "Ok", m |-> m]
Items == {None, SomeErr} \cup {SomeOk(m) : m \in Message}

\* base64::decode(msg.into_data()): the bytes, or an error
decode(m) ==
  IF m.body = "base64"
    THEN [ok |-> TRUE, wire |-> m.wire, pd |-> m.pd]
    ELSE [ok |-> FALSE, wire |-> FALSE, pd |-> NoData]

\* parse_from_bytes::<PricingData>(bytes): the record, or an error
parse_from_bytes(b) ==
  IF b.wire
    THEN [ok |-> TRUE, pd |-> b.pd]
    ELSE [ok |-> FALSE, pd |-> NoData]

\* a Quote with price and volume taken from the wrong fields
QuoteSwapped(p) == [symbol |-> p.id, price |-> p.dayVolume, volume |-> p.price]

\* Quote built by run from the decoded record
Quote(p) == [symbol |-> p.id, price |-> p.price, volume |-> p.dayVolume]

\* Subs { subscribe: v }
Subs(vec) == [subscribe |-> vec]

\* argument lists of subscribe
Batches == UNION {[1..n -> Symbols] : n \in 0..MaxBatch}

\* ------------------------------------------------------- map operations
\* if !map.contains_key(symbol) { map.insert(symbol, Box::new(callback)); }
InsertOverwrite(map, symbol, cb) ==
  [s \in DOMAIN map \cup {symbol} |-> IF s = symbol THEN cb ELSE map[s]]

InsertToggle(map, symbol, cb) ==
  IF symbol \in DOMAIN map
    THEN [s \in DOMAIN map \ {symbol} |-> map[s]]
    ELSE [s \in DOMAIN map \cup {symbol} |-> IF s = symbol THEN cb ELSE map[s]]

Insert(map, symbol, cb) ==
  IF symbol \in DOMAIN map
    THEN map
    ELSE [s \in DOMAIN map \cup {symbol} |-> IF s = symbol THEN cb ELSE map[s]]

\* for symbol in symbols { if !map.contains_key(symbol) { map.insert(..) } }
RECURSIVE InsertAll(_, _, _)
InsertAll(map, syms, cb) ==
  IF syms = <<>>
    THEN map
    ELSE InsertAll(Insert(map, Head(syms), cb), Tail(syms), cb)

\* for (symbol, _) in map.iter() { v.push(*symbol); }
\* HashMap iteration visits every key once in an order the hasher decides.
SnapshotKeysSkip(map) ==
  LET n == Cardinality(DOMAIN map)
      m == IF n > 1 THEN n - 1 ELSE n
  IN {s \in [1..m -> DOMAIN map] : \A i, j \in 1..m : s[i] = s[j] => i = j}

SnapshotKeysRepeat(map) ==
  [1..Cardinality(DOMAIN map) -> DOMAIN map]

SnapshotKeys(map) ==
  LET n == Cardinality(DOMAIN map)
  IN {s \in [1..n -> DOMAIN map] : \A i, j \in 1..n : s[i] = s[j] => i = j}

\* match map.get(x.id.as_str()) { Some(callback) => callback(Quote{..}), None => () }
\* the invocations the match makes: none or one
MatchAlways(map, p) ==
  IF p.id \in DOMAIN map
    THEN <<[callback |-> map[p.id], quote |-> Quote(p)]>>
    ELSE IF DOMAIN map = {} THEN <<>>
         ELSE <<[callback |-> map[CHOOSE s \in DOMAIN map : TRUE], quote |-> Quote(p)]>>

Match(map, p) ==
  IF p.id \in DOMAIN map
    THEN <<[callback |-> map[p.id], quote |-> Quote(p)]>>
    ELSE <<>>

\* ------------------------------------------------------------------ Init
Init ==
  /\ stream = "unconnected"
  /\ subscriptions = EmptyMap
  /\ lock = "unlocked"
  /\ pc = "connect"
  /\ v = <<>>
  /\ item = Pending
  /\ msg = NoMsg
  /\ x = NoData
  /\ result = "none"
  /\ spc = "idle"
  /\ symbols = <<>>
  /\ si = 1
  /\ callback = "none"
  /\ sent = <<>>
  /\ arrived = <<>>
  /\ invoked = <<>>
  /\ insertOrder = <<>>
  /\ duplicate = FALSE
  /\ nruns = 0
  /\ nsubs = 0

\* no call on the Streamer is in progress
Quiescent == pc \in {"idle", "returned"} /\ spc = "idle"

\* ------------------------------------------------------- Streamer::new
NewOk ==
  /\ pc = "connect"
  /\ stream' = "connected"
  /\ pc' = "idle"
  /\ UNCHANGED <<subscriptions, lock, runLocals, result, subLocals, history, nruns, nsubs>>

\* a constructor that ignores the failed connect and returns a Streamer
NewFailIgnored ==
  /\ pc = "connect"
  /\ pc' = "idle"
  /\ UNCHANGED <<stream, subscriptions, lock, runLocals, result, subLocals, history, nruns, nsubs>>

\* connect_async(..).await.expect("Failed to connect") panics
NewFail ==
  /\ pc = "connect"
  /\ pc' = "connect_panicked"
  /\ UNCHANGED <<stream, subscriptions, lock, runLocals, result, subLocals, history, nruns, nsubs>>

\* ------------------------------------------------- Streamer::subscribe
\* the call: the caller's earlier use of the last run's outcome ends here
SubscribeCall(syms, cb) ==
  /\ Quiescent
  /\ nsubs < MaxSubscribes
  /\ nsubs' = nsubs + 1
  /\ spc' = "lock"
  /\ symbols' = syms
  /\ si' = 1
  /\ callback' = cb
  /\ arrived' = <<>>
  /\ invoked' = <<>>
  /\ UNCHANGED <<stream, subscriptions, lock, pc, runLocals, result,
                 sent, insertOrder, duplicate, nruns>>

\* a subscribe that inserts without taking the write lock
SubscribeLockSkipped ==
  /\ spc = "lock"
  /\ spc' = "insert"
  /\ UNCHANGED <<stream, subscriptions, lock, pc, runLocals, result, symbols, si, callback,
                 history, nruns, nsubs>>

\* let mut map = self.subscriptions.write().expect(..)
SubscribeLock ==
  /\ spc = "lock"
  /\ lock = "unlocked"
  /\ lock' = "write"
  /\ spc' = "insert"
  /\ UNCHANGED <<stream, subscriptions, pc, runLocals, result, symbols, si, callback,
                 history, nruns, nsubs>>

\* one iteration of `for symbol in symbols`
SubscribeInsert ==
  /\ spc = "insert"
  /\ si <= Len(symbols)
  /\ subscriptions' = Insert(subscriptions, symbols[si], callback)
  /\ insertOrder' = IF symbols[si] \in DOMAIN subscriptions
                      THEN insertOrder
                      ELSE Append(insertOrder, symbols[si])
  /\ duplicate' = (duplicate \/ symbols[si] \in DOMAIN subscriptions)
  /\ si' = si + 1
  /\ UNCHANGED <<stream, lock, pc, runLocals, result, spc, symbols, callback,
                 sent, arrived, invoked, nruns, nsubs>>

\* a subscribe that also tells the remote end once a run has started, as the
\* comment at the end of subscribe plans
SubscribeReturnResend ==
  /\ spc = "insert"
  /\ si > Len(symbols)
  /\ lock' = "unlocked"
  /\ spc' = "idle"
  /\ symbols' = <<>>
  /\ si' = 1
  /\ callback' = "none"
  /\ sent' = IF nruns > 0
               THEN Append(sent, [run |-> nruns, frame |-> Subs(symbols)])
               ELSE sent
  /\ UNCHANGED <<stream, subscriptions, pc, runLocals, result,
                 arrived, invoked, insertOrder, duplicate, nruns, nsubs>>

\* end of subscribe: the write guard and the arguments are dropped
SubscribeReturn ==
  /\ spc = "insert"
  /\ si > Len(symbols)
  /\ lock' = "unlocked"
  /\ spc' = "idle"
  /\ symbols' = <<>>
  /\ si' = 1
  /\ callback' = "none"
  /\ UNCHANGED <<stream, subscriptions, pc, runLocals, result, history, nruns, nsubs>>

\* ------------------------------------------------------- Streamer::run
RunCall ==
  /\ Quiescent
  /\ nruns < MaxRuns
  /\ nruns' = nruns + 1
  /\ pc' = "snapshot"
  /\ v' = <<>>
  /\ item' = Pending
  /\ msg' = NoMsg
  /\ x' = NoData
  /\ result' = "none"
  /\ arrived' = <<>>
  /\ invoked' = <<>>
  /\ UNCHANGED <<stream, subscriptions, lock, subLocals, sent, insertOrder, duplicate, nsubs>>

\* let map = self.subscriptions.read().unwrap();
RunSnapshotLock ==
  /\ pc = "snapshot"
  /\ lock # "write"
  /\ lock' = "read"
  /\ pc' = "iterate"
  /\ UNCHANGED <<stream, subscriptions, runLocals, result, subLocals, history, nruns, nsubs>>

\* for (symbol, _) in map.iter() { v.push(*symbol); }
RunIterate ==
  /\ pc = "iterate"
  /\ v' \in SnapshotKeys(subscriptions)
  /\ pc' = "snapshot_end"
  /\ UNCHANGED <<stream, subscriptions, lock, item, msg, x, result, subLocals, history,
                 nruns, nsubs>>

\* end of the block: the read guard is dropped, then send(..) is awaited
RunSnapshotUnlock ==
  /\ pc = "snapshot_end"
  /\ lock' = "unlocked"
  /\ pc' = "send"
  /\ UNCHANGED <<stream, subscriptions, runLocals, result, subLocals, history, nruns, nsubs>>

\* self.stream.send(Message::Text(..)).await succeeds
RunSendOk ==
  /\ pc = "send"
  /\ sent' = Append(sent, [run |-> nruns, frame |-> Subs(v)])
  /\ pc' = "recv"
  /\ UNCHANGED <<stream, subscriptions, lock, runLocals, result, subLocals,
                 arrived, invoked, insertOrder, duplicate, nruns, nsubs>>

\* a run that ignores the failed send and starts listening
RunSendErrIgnored ==
  /\ pc = "send"
  /\ pc' = "recv"
  /\ UNCHANGED <<stream, subscriptions, lock, runLocals, result, subLocals, history,
                 nruns, nsubs>>

\* self.stream.send(..).await? fails: run returns the error
RunSendErr ==
  /\ pc = "send"
  /\ result' = "Err"
  /\ pc' = "returned"
  /\ v' = <<>>
  /\ UNCHANGED <<stream, subscriptions, lock, item, msg, x, subLocals, history, nruns, nsubs>>

\* self.stream.next().await yields an item
RunRecv(it) ==
  /\ pc = "recv"
  /\ it.res = "Ok" => Len(arrived) < MaxFrames
  /\ item' = it
  /\ pc' = "while_let"
  /\ UNCHANGED <<stream, subscriptions, lock, v, msg, x, result, subLocals, history,
                 nruns, nsubs>>

\* while let Some(msg) = ..: the item is Some
RunWhileLetSome ==
  /\ pc = "while_let"
  /\ item.tag = "Some"
  /\ pc' = "try"
  /\ UNCHANGED <<stream, subscriptions, lock, runLocals, result, subLocals, history,
                 nruns, nsubs>>

\* a loop that polls the ended stream again instead of leaving
RunWhileLetNoneContinue ==
  /\ pc = "while_let"
  /\ item.tag = "None"
  /\ pc' = "recv"
  /\ UNCHANGED <<stream, subscriptions, lock, runLocals, result, subLocals, history,
                 nruns, nsubs>>

\* while let Some(msg) = ..: the item is None, the loop ends and run returns Ok(())
RunWhileLetNone ==
  /\ pc = "while_let"
  /\ item.tag = "None"
  /\ result' = "Ok"
  /\ pc' = "returned"
  /\ v' = <<>>
  /\ UNCHANGED <<stream, subscriptions, lock, item, msg, x, subLocals, history, nruns, nsubs>>

\* let msg = msg?; with Ok(msg): the frame moves into msg
RunTryOk ==
  /\ pc = "try"
  /\ item.res = "Ok"
  /\ msg' = item.m
  /\ item' = Pending
  /\ pc' = "decode"
  /\ UNCHANGED <<stream, subscriptions, lock, v, x, result, subLocals, history,
                 nruns, nsubs>>

\* a loop that skips a failed receive and waits for the next frame
RunTryErrContinue ==
  /\ pc = "try"
  /\ item.res = "Err"
  /\ pc' = "recv"
  /\ UNCHANGED <<stream, subscriptions, lock, runLocals, result, subLocals, history,
                 nruns, nsubs>>

\* let msg = msg?; with Err(e): run returns the error
RunTryErr ==
  /\ pc = "try"
  /\ item.res = "Err"
  /\ result' = "Err"
  /\ pc' = "returned"
  /\ v' = <<>>
  /\ UNCHANGED <<stream, subscriptions, lock, item, msg, x, subLocals, history, nruns, nsubs>>

\* parse_from_bytes(&decode(msg.into_data()).unwrap()).unwrap() succeeds
RunDecodeOk ==
  /\ pc = "decode"
  /\ decode(msg).ok
  /\ parse_from_bytes(decode(msg)).ok
  /\ x' = parse_from_bytes(decode(msg)).pd
  /\ arrived' = Append(arrived, x')
  /\ pc' = "lookup"
  /\ UNCHANGED <<stream, subscriptions, lock, v, item, msg, result, subLocals,
                 sent, invoked, insertOrder, duplicate, nruns, nsubs>>

\* one of the two unwrap() calls panics: run never returns
RunDecodePanic ==
  /\ pc = "decode"
  /\ ~(decode(msg).ok /\ parse_from_bytes(decode(msg)).ok)
  /\ pc' = "panicked"
  /\ UNCHANGED <<stream, subscriptions, lock, runLocals, result, subLocals, history,
                 nruns, nsubs>>

\* let map = self.subscriptions.read().expect(..)
RunLookupLock ==
  /\ pc = "lookup"
  /\ lock # "write"
  /\ lock' = "read"
  /\ pc' = "match"
  /\ UNCHANGED <<stream, subscriptions, runLocals, result, subLocals, history, nruns, nsubs>>

\* a dispatch that takes the entry out of the map to call it
RunMatchRemove ==
  /\ pc = "match"
  /\ invoked' = invoked \o Match(subscriptions, x)
  /\ subscriptions' = [s \in DOMAIN subscriptions \ {x.id} |-> subscriptions[s]]
  /\ pc' = IF Match(subscriptions, x) = <<>> THEN "end_body" ELSE "callback"
  /\ UNCHANGED <<stream, lock, runLocals, result, subLocals,
                 sent, arrived, insertOrder, duplicate, nruns, nsubs>>

\* a dispatch that starts the callback and goes on without waiting for it
RunMatchSpawn ==
  /\ pc = "match"
  /\ invoked' = invoked \o Match(subscriptions, x)
  /\ pc' = "end_body"
  /\ UNCHANGED <<stream, subscriptions, lock, runLocals, result, subLocals,
                 sent, arrived, insertOrder, duplicate, nruns, nsubs>>

\* a dispatch that drops the read guard before it calls the callback
RunMatchDropGuard ==
  /\ pc = "match"
  /\ invoked' = invoked \o Match(subscriptions, x)
  /\ lock' = "unlocked"
  /\ pc' = IF Match(subscriptions, x) = <<>> THEN "end_body" ELSE "callback"
  /\ UNCHANGED <<stream, subscriptions, runLocals, result, subLocals,
                 sent, arrived, insertOrder, duplicate, nruns, nsubs>>

\* match map.get(..): Some(callback) calls it, None does nothing
RunMatch ==
  /\ pc = "match"
  /\ invoked' = invoked \o Match(subscriptions, x)
  /\ pc' = IF Match(subscriptions, x) = <<>> THEN "end_body" ELSE "callback"
  /\ UNCHANGED <<stream, subscriptions, lock, runLocals, result, subLocals,
                 sent, arrived, insertOrder, duplicate, nruns, nsubs>>

\* the callback returns
RunCallbackReturn ==
  /\ pc = "callback"
  /\ pc' = "end_body"
  /\ UNCHANGED <<stream, subscriptions, lock, runLocals, result, subLocals, history,
                 nruns, nsubs>>

\* a loop whose read guard outlives the iteration
RunEndBodyKeepGuard ==
  /\ pc = "end_body"
  /\ pc' = "recv"
  /\ msg' = NoMsg
  /\ x' = NoData
  /\ UNCHANGED <<stream, subscriptions, lock, v, item, result, subLocals, history,
                 nruns, nsubs>>

\* end of the loop body: map (the read guard), x and msg are dropped, and
\* the loop awaits the next frame
RunEndBody ==
  /\ pc = "end_body"
  /\ lock' = "unlocked"
  /\ pc' = "recv"
  /\ msg' = NoMsg
  /\ x' = NoData
  /\ UNCHANGED <<stream, subscriptions, v, item, result, subLocals, history, nruns, nsubs>>

\* ------------------------------------------------------------------ Next
Next ==
  \/ NewOk
  \/ NewFail
  \/ \E syms \in Batches, cb \in Callbacks : SubscribeCall(syms, cb)
  \/ SubscribeLock
  \/ SubscribeInsert
  \/ SubscribeReturn
  \/ RunCall
  \/ RunSnapshotLock
  \/ RunIterate
  \/ RunSnapshotUnlock
  \/ RunSendOk
  \/ RunSendErr
  \/ \E it \in Items : RunRecv(it)
  \/ RunWhileLetSome
  \/ RunWhileLetNone
  \/ RunTryOk
  \/ RunTryErr
  \/ RunDecodeOk
  \/ RunDecodePanic
  \/ RunLookupLock
  \/ RunMatch
  \/ RunCallbackReturn
  \/ RunEndBody

Spec == Init /\ [][Next]_vars

\* the steps of a run in progress: the executor polls the future, the stream
\* yields its next item, the callback returns
RunStep ==
  \/ RunSnapshotLock
  \/ RunIterate
  \/ RunSnapshotUnlock
  \/ RunSendOk
  \/ RunSendErr
  \/ \E it \in Items : RunRecv(it)
  \/ RunWhileLetSome
  \/ RunWhileLetNone
  \/ RunTryOk
  \/ RunTryErr
  \/ RunDecodeOk
  \/ RunDecodePanic
  \/ RunLookupLock
  \/ RunMatch
  \/ RunCallbackReturn
  \/ RunEndBody

\* a run in progress is polled until it ends, every callback returns, and the
\* stream yields items until it ends or fails
LiveSpec == Spec /\ WF_vars(RunStep)

\* ---------------------------------------------------------------- claims
\* positions of run between the call and the return
InRun == pc \in {"snapshot", "iterate", "snapshot_end", "send", "recv", "while_let",
                 "try", "decode", "lookup", "match", "callback", "end_body"}
\* positions of run in the loop, after the subscription frame was sent
Listening == pc \in {"recv", "while_let", "try", "decode", "lookup", "match",
                     "callback", "end_body"}
\* positions where a future is suspended at an .await
Suspended == pc \in {"connect", "send", "recv"}

\* the symbol list of the last frame sent
LastRequest == sent[Len(sent)].frame.subscribe

\* the updates of the latest run that have been through the match
Dispatched ==
  IF pc \in {"lookup", "match"} THEN SubSeq(arrived, 1, Len(arrived) - 1) ELSE arrived

IsRegistered(p) == p.id \in DOMAIN subscriptions

C1_DispatchInv ==
  LET reg == SelectSeq(Dispatched, IsRegistered)
  IN /\ Len(invoked) = Len(reg)
     /\ \A i \in 1..Len(reg) :
          /\ invoked[i].callback = subscriptions[reg[i].id]
          /\ invoked[i].quote.symbol = reg[i].id

C1_UnregisteredStep ==
  /\ (pc = "match" /\ x.id \notin DOMAIN subscriptions)
        => (pc' = "end_body" /\ invoked' = invoked)
  /\ pc = "end_body" => pc' = "recv"

\* C1: the callbacks invoked by a run are exactly those registered for the
\* decoded updates whose id is a key of the registry, one invocation per such
\* update, in arrival order; an update whose id is not a key invokes nothing
\* and the loop goes on to await the next frame.
C1_DispatchCorrect == [](C1_DispatchInv) /\ [][C1_UnregisteredStep]_vars

C1_Witness ==
  /\ pc = "recv"
  /\ Len(arrived) = 3
  /\ Len(invoked) = 2
  /\ arrived[2].id \notin DOMAIN subscriptions
  /\ invoked[1].callback # invoked[2].callback
  /\ invoked[1].quote.symbol = arrived[1].id
  /\ invoked[2].quote.symbol = arrived[3].id

C2_Step ==
  /\ \A s \in DOMAIN subscriptions \cap DOMAIN subscriptions' :
       subscriptions'[s] = subscriptions[s]
  /\ \A s \in DOMAIN subscriptions' \ DOMAIN subscriptions :
       /\ spc = "insert"
       /\ si <= Len(symbols)
       /\ s = symbols[si]
       /\ subscriptions'[s] = callback

\* C2: a symbol of the registry keeps the callback it was first inserted
\* with: a key enters the registry only in a subscribe that names it, with
\* that call's callback, and no step changes the callback of a key.
C2_FirstSubscribeWins == [][C2_Step]_vars

C2_Witness ==
  /\ spc = "insert"
  /\ si > 1
  /\ symbols[si - 1] \in DOMAIN subscriptions
  /\ subscriptions[symbols[si - 1]] # callback
  /\ nsubs = 2

FramesOf(r) == {i \in 1..Len(sent) : sent[i].run = r}

C3_OnceInv ==
  /\ \A r \in 1..nruns : Cardinality(FramesOf(r)) <= 1
  /\ \A i \in 1..Len(sent) : sent[i].run \in 1..nruns
  /\ (Listening \/ pc = "panicked" \/ (pc = "returned" /\ result = "Ok"))
        => Cardinality(FramesOf(nruns)) = 1
  /\ Listening => /\ sent[Len(sent)].run = nruns
                  /\ LastRequest = v
                  /\ Range(LastRequest) = DOMAIN subscriptions

C3_Step ==
  /\ (spc # "idle" \/ spc' # "idle") => sent' = sent
  /\ sent' # sent => /\ pc = "send"
                     /\ sent' = Append(sent, [run |-> nruns, frame |-> Subs(v)])

\* C3: a run sends the subscription request once; its symbol list is the key
\* set the registry had when the run took its snapshot; a subscribe after the
\* request was sent changes no frame already sent and sends none.
C3_SnapshotIsolation == [](C3_OnceInv) /\ [][C3_Step]_vars

C3_Witness ==
  /\ spc = "idle"
  /\ Len(sent) = 1
  /\ \E s \in DOMAIN subscriptions : s \notin Range(LastRequest)

DecodeFailed ==
  /\ msg # NoMsg
  /\ ~(decode(msg).ok /\ parse_from_bytes(decode(msg)).ok)
  /\ pc # "decode"

\* C4: a decode failure (body not base64, or bytes that do not parse) makes
\* run return an error value to its caller.
C4_DecodeFailureReturnsErr ==
  DecodeFailed => (pc = "returned" /\ result = "Err")

C5_ReturnInv ==
  /\ (item = None /\ pc # "while_let") => (pc = "returned" /\ result = "Ok")
  /\ (item = SomeErr /\ pc \notin {"while_let", "try"})
        => (pc = "returned" /\ result = "Err")

C5_AfterReturnStep ==
  pc = "returned" =>
    /\ Len(arrived') <= Len(arrived)
    /\ Len(invoked') <= Len(invoked)
    /\ pc' \in {"returned", "snapshot"}
    /\ pc' = "returned" => (result' = result /\ item' = item)

\* C5: when the stream ends run returns Ok, when a receive yields an error
\* run returns Err; after either, the run receives no frame and invokes no
\* callback.
C5_ListeningEnds == [](C5_ReturnInv) /\ [][C5_AfterReturnStep]_vars

C5_Witness ==
  /\ pc = "returned"
  /\ item = SomeErr
  /\ result = "Err"
  /\ Len(invoked) >= 1

\* C6 as stated: the symbol list of the request is in insertion order.
C6_InsertionOrder ==
  Listening => LastRequest = insertOrder

\* C6 amended: the symbol list of the request is a permutation of the symbols
\* in insertion order: each inserted symbol appears in it, and it is no
\* longer than the list of inserted symbols.
C6_PermutationOfInserted ==
  Listening =>
    /\ Len(LastRequest) = Len(insertOrder)
    /\ \A i \in 1..Len(insertOrder) :
         \E j \in 1..Len(LastRequest) : LastRequest[j] = insertOrder[i]

C6_Witness ==
  /\ pc = "recv"
  /\ Len(insertOrder) = 2
  /\ LastRequest[1] = insertOrder[2]
  /\ LastRequest[2] = insertOrder[1]

\* C7: the symbol list of the request has no duplicates: every key of the
\* registry occurs in it exactly once and nothing else occurs, also when the
\* subscribe calls repeated a symbol.
C7_NoDuplicates ==
  Listening =>
    /\ \A i, j \in 1..Len(LastRequest) : LastRequest[i] = LastRequest[j] => i = j
    /\ \A s \in DOMAIN subscriptions : \E i \in 1..Len(LastRequest) : LastRequest[i] = s
    /\ \A i \in 1..Len(LastRequest) : LastRequest[i] \in DOMAIN subscriptions

C7_Witness ==
  /\ pc = "recv"
  /\ duplicate
  /\ Len(LastRequest) = 2

\* C8: when a subscribe call has inserted its symbols, the same call again
\* (same symbols, same callback) leaves the registry as it is.
C8_Idempotent ==
  (spc = "insert" /\ si > Len(symbols))
     => InsertAll(subscriptions, symbols, callback) = subscriptions

C8_Witness ==
  /\ spc = "insert"
  /\ si > Len(symbols)
  /\ Len(symbols) = 2
  /\ symbols[1] # symbols[2]
  /\ nsubs = 1
  /\ DOMAIN subscriptions = {symbols[1], symbols[2]}

C9_Step == DOMAIN subscriptions \subseteq DOMAIN subscriptions'

\* C9: no step removes a key from the registry.
C9_KeysNeverShrink == [][C9_Step]_vars

C9_Witness ==
  /\ pc = "returned"
  /\ Len(invoked) >= 2
  /\ Cardinality(DOMAIN subscriptions) = 2
  /\ nsubs = 2

\* C10: the lock is free whenever a future is suspended at an .await, the
\* write lock is held only inside subscribe's insert loop, which has no
\* .await and runs while no run is in progress, and the lock is free when no
\* call is in progress.
C10_NoLockAcrossAwait ==
  /\ Suspended => lock = "unlocked"
  /\ lock = "write" => (spc = "insert" /\ ~InRun)
  /\ lock = "read" => pc \in {"iterate", "snapshot_end", "match", "callback", "end_body"}
  /\ Quiescent => lock = "unlocked"

C10_Witness ==
  /\ pc = "recv"
  /\ Len(invoked) >= 1
  /\ lock = "unlocked"
  /\ nsubs >= 1

\* the registry as a reader of run sees it: run holds a read guard
Reading == pc \in {"iterate", "snapshot_end", "match", "callback", "end_body"}

C11_LockInv ==
  /\ spc = "insert" => lock = "write"
  /\ lock = "write" => ~Reading
  /\ Reading => (lock = "read" /\ spc # "insert")

C11_WriteStep ==
  subscriptions' # subscriptions => (lock = "write" /\ lock' = "write")

\* C11: a batch subscribe is atomic for the readers: the registry changes
\* only under the write lock, which subscribe holds from before its first
\* insert until after its last, and run reads the registry (snapshot, lookup)
\* only under a read lock, which excludes the write lock; so no read sees a
\* proper part of a batch.
C11_BatchAtomic == [](C11_LockInv) /\ [][C11_WriteStep]_vars

C11_Witness ==
  /\ spc = "insert"
  /\ lock = "write"
  /\ Len(symbols) = 2
  /\ si = 2
  /\ symbols[1] \in DOMAIN subscriptions
  /\ symbols[2] \notin DOMAIN subscriptions
  /\ nruns = 1

\* some subscribe call can start
SubscribeAny == \E syms \in Batches, cb \in Callbacks : SubscribeCall(syms, cb)

\* C12 as stated, its first part: subscribe may be called in any state of an
\* engine that exists (Connected, Subscribing, Listening, Terminated).
C12_CallableInAnyState ==
  (stream = "connected" /\ pc # "panicked" /\ spc = "idle" /\ nsubs < MaxSubscribes)
     => ENABLED SubscribeAny

EngineExists == pc \notin {"connect", "connect_panicked"}

C13_EngineInv ==
  /\ EngineExists <=> stream = "connected"
  /\ ~EngineExists => /\ nruns = 0
                      /\ nsubs = 0
                      /\ spc = "idle"
                      /\ subscriptions = EmptyMap
                      /\ sent = <<>>

C13_ConnectStep ==
  /\ pc # "connect_panicked"
  /\ pc' = "connect" => pc = "connect"

\* C13: the connection is attempted once and its failure is fatal: a
\* Streamer exists only if the attempt succeeded; after a failed attempt
\* nothing happens any more: no second attempt, no subscribe, no run.
C13_ConnectOnceOrDie == [](C13_EngineInv) /\ [][C13_ConnectStep]_vars

C13_Witness ==
  /\ pc = "connect_panicked"
  /\ stream = "unconnected"

\* positions of run before the subscription frame has been sent
BeforeListening == pc \in {"snapshot", "iterate", "snapshot_end", "send"}

\* the current run has received nothing and invoked nothing
NothingReceived ==
  /\ item = Pending
  /\ msg = NoMsg
  /\ arrived = <<>>
  /\ invoked = <<>>

\* C14: run enters the loop only after its subscription frame was sent: up
\* to the end of the send it has received no frame and invoked no callback,
\* in the loop its frame has been sent, and a run whose send failed has
\* returned Err without receiving a frame or invoking a callback.
C14_ListenAfterSend ==
  /\ BeforeListening => (NothingReceived /\ FramesOf(nruns) = {})
  /\ Listening => FramesOf(nruns) # {}
  /\ (pc = "returned" /\ FramesOf(nruns) = {})
        => (result = "Err" /\ NothingReceived)

C14_Witness ==
  /\ pc = "returned"
  /\ nruns = 1
  /\ sent = <<>>
  /\ result = "Err"
  /\ DOMAIN subscriptions # {}

C15_Inv ==
  /\ Len(invoked) <= Len(arrived)
  /\ pc = "callback" => /\ invoked # <<>>
                        /\ invoked[Len(invoked)].quote.symbol = x.id
                        /\ arrived[Len(arrived)] = x

C15_Step ==
  /\ Len(invoked') > Len(invoked) => (Len(invoked') = Len(invoked) + 1 /\ pc' = "callback")
  /\ pc = "callback" => /\ pc' = "end_body"
                        /\ UNCHANGED <<item, msg, x, arrived, invoked>>
  /\ (item' # item /\ item' # Pending) => (pc = "recv" /\ pc' = "while_let")

\* C15: callbacks run inside the loop: an invocation puts run in the
\* callback, one at a time; while the callback has not returned the only
\* step is its return, so no frame is received or dispatched meanwhile (and
\* none ever, if it does not return); a frame is received only at the await
\* at the top of the loop.
C15_CallbackSynchronous == [](C15_Inv) /\ [][C15_Step]_vars

C15_Witness ==
  /\ pc = "callback"
  /\ Len(invoked) = 2
  /\ Len(arrived) = 2

C16_Inv ==
  /\ pc \in {"lookup", "match", "callback", "end_body"}
        => (x = msg.pd /\ x = arrived[Len(arrived)])
  /\ \A i \in 1..Len(invoked) :
       /\ invoked[i].quote.symbol \in DOMAIN subscriptions
       /\ invoked[i].callback = subscriptions[invoked[i].quote.symbol]

C16_Step ==
  invoked' # invoked =>
    \/ invoked' = <<>>
    \/ /\ pc = "match"
       /\ x.id \in DOMAIN subscriptions
       /\ invoked' = Append(invoked,
                       [callback |-> subscriptions[x.id],
                        quote |-> [symbol |-> x.id, price |-> x.price,
                                   volume |-> x.dayVolume]])

\* C16: every invocation is for the update just decoded: the callback is
\* the one the registry holds under the update's id, called once with one
\* Quote whose symbol is that id and whose price and volume are the update's
\* price and dayVolume; so no callback gets a Quote of a symbol it is not
\* registered for.
C16_InvocationMatches == [](C16_Inv) /\ [][C16_Step]_vars

C16_Witness ==
  /\ pc = "callback"
  /\ Cardinality(DOMAIN subscriptions) = 2
  /\ subscriptions["A"] # subscriptions["B"]
  /\ invoked[Len(invoked)] = [callback |-> subscriptions[x.id],
                              quote |-> [symbol |-> x.id, price |-> x.price,
                                         volume |-> x.dayVolume]]
  /\ x.price # x.dayVolume

\* a run call has ended: it returned, or it panicked
Terminated == pc \in {"returned", "panicked"}

C17_Step ==
  /\ (Listening /\ ~Listening') =>
       \/ pc = "while_let" /\ item = None /\ pc' = "returned" /\ result' = "Ok"
       \/ pc = "try" /\ item = SomeErr /\ pc' = "returned" /\ result' = "Err"
       \/ /\ pc = "decode"
          /\ ~(decode(msg).ok /\ parse_from_bytes(decode(msg)).ok)
          /\ pc' = "panicked"
  /\ (Terminated /\ nruns' = nruns) => (pc' = pc /\ result' = result)
  /\ pc # "panicked"

SubscribeNew ==
  \E s \in Symbols \ DOMAIN subscriptions, cb \in Callbacks : SubscribeCall(<<s>>, cb)

\* C18 as stated, its case: after run has sent its request and while it
\* waits for the next update, a symbol that was not in the request can be
\* subscribed, so that an update with its id finds its callback.
C18_LateSubscribeDispatched ==
  (pc = "recv" /\ spc = "idle" /\ nsubs < MaxSubscribes
     /\ Symbols \ Range(LastRequest) # {})
    => ENABLED SubscribeNew

C19_Inv ==
  /\ pc \in {"match", "callback", "end_body"} => lock = "read"
  /\ pc = "callback" => /\ lock # "unlocked"
                        /\ ~ENABLED SubscribeLock
                        /\ ~ENABLED SubscribeInsert

C19_Step ==
  pc \in {"match", "callback"} => (subscriptions' = subscriptions /\ lock' = "read")

\* C19: run holds the read lock from the lookup until the callback it
\* invoked has returned and the loop body ends: while a callback executes
\* the registry does not change and the write lock cannot be acquired, so a
\* subscribe could not proceed, whether beside the callback or inside it.
C19_ReadLockAcrossCallback == [](C19_Inv) /\ [][C19_Step]_vars

C19_Witness ==
  /\ pc = "callback"
  /\ lock = "read"
  /\ nsubs = 2
  /\ Len(invoked) >= 1

====
